---- MODULE Spec2Model ----
(***************************************************************************)
(* Model of src/network/decodeENR.py: the minimal RLP decoder (rlp_decode, *)
(* _rlp_decode_at) and the ENR record decoder built on it (decode_enr and  *)
(* its helpers).                                                           *)
(*                                                                         *)
(* Conventions.                                                            *)
(*  - A Python `bytes` value is a sequence of integers 0..255.  Positions  *)
(*    are 0-based as in the source; data[pos] is written data[pos + 1].    *)
(*  - A decoded RLP object is a Node: Str(b) for a Python bytes object,    *)
(*    Lst(items) for a Python list.                                        *)
(*  - A Python str is a sequence of code points.                           *)
(*  - A call ends with err = "" (it returned) or err = the name of the     *)
(*    exception class that left it.                                        *)
(***************************************************************************)
EXTENDS Integers, Sequences, FiniteSets, TLC

VARIABLES data, ret, enr, kv, out, pc, calls, heap

vars == <<data, ret, enr, kv, out, pc, calls, heap>>

(***************************************************************************)
(* Python values                                                           *)
(***************************************************************************)

Str(b) == [t |-> "S", b |-> b]

Lst(items) == [t |-> "L", items |-> items]

NoObj == [t |-> "none"]

IsStr(x) == x.t = "S"

IsLst(x) == x.t = "L"

Min(a, b) == IF a < b THEN a ELSE b

\* data[start:end] for 0 <= start, end: Python clips the slice to the buffer.
Slice(s, start, end) ==
    LET hi == Min(end, Len(s))
    IN  IF start >= hi THEN <<>> ELSE SubSeq(s, start + 1, hi)

\* int.from_bytes(b, "big"); the empty sequence gives 0.
RECURSIVE int_from_bytes(_)
int_from_bytes(b) ==
    IF b = <<>> THEN 0
    ELSE int_from_bytes(SubSeq(b, 1, Len(b) - 1)) * 256 + b[Len(b)]

(***************************************************************************)
(* Minimal RLP decoder                                                     *)
(*                                                                         *)
(* A result is [err, obj, pos, sp].  obj and pos are the tuple the source  *)
(* returns.  sp is a history of the call: one span per node the call       *)
(* looked at, in the order they were entered, recording where the node     *)
(* starts (pos), where its header ends (hdr) as the prefix declares it,    *)
(* and where its payload ends (end) as the prefix declares it; for a list,  *)
(* stop is the cursor p at which its child loop stopped.  The source       *)
(* computes these numbers; it does not keep them.                          *)
(***************************************************************************)

Span(pos, hdr, end, kind, stop) ==
    [pos |-> pos, hdr |-> hdr, end |-> end, kind |-> kind, stop |-> stop]

Raise(e, sp) == [err |-> e, obj |-> NoObj, pos |-> -1, sp |-> sp]

Return(obj, pos, sp) == [err |-> "", obj |-> obj, pos |-> pos, sp |-> sp]

RECURSIVE _rlp_decode_at(_, _)
RECURSIVE rlp_list_items(_, _, _, _, _)
RECURSIVE rlp_list_items_prepend(_, _, _, _, _)

\* Mutant of rlp_list_items: each decoded child is put in front of the items.
rlp_list_items_prepend(d, p, end, items, sp) ==
    IF p < end
    THEN LET r == _rlp_decode_at(d, p)
         IN  IF r.err # ""
             THEN [err |-> r.err, items |-> items, p |-> p, sp |-> sp \o r.sp]
             ELSE rlp_list_items_prepend(d, r.pos, end, <<r.obj>> \o items,
                                         sp \o r.sp)
    ELSE [err |-> "", items |-> items, p |-> p, sp |-> sp]

\* The child loop of a list:
\*     while p < end: item, p = _rlp_decode_at(data, p); items.append(item)
\* The result holds the items, the cursor p the loop stopped at, and the spans
\* of the children.
rlp_list_items(d, p, end, items, sp) ==
    IF p < end
    THEN LET r == _rlp_decode_at(d, p)
         IN  IF r.err # ""
             THEN [err |-> r.err, items |-> items, p |-> p, sp |-> sp \o r.sp]
             ELSE rlp_list_items(d, r.pos, end, Append(items, r.obj), sp \o r.sp)
    ELSE [err |-> "", items |-> items, p |-> p, sp |-> sp]

\* Mutant of rlp_list_close: the test p != end is missing.
rlp_list_close_unchecked(loop, pos, start, end, kind) ==
    LET sp == <<Span(pos, start, end, kind, loop.p)>> \o loop.sp
    IN  IF loop.err # "" THEN Raise(loop.err, sp)
        ELSE Return(Lst(loop.items), end, sp)

\* After the loop:  if p != end: raise ValueError(...);  return items, end
\* The list's own span records in `stop` the cursor the loop stopped at.
rlp_list_close(loop, pos, start, end, kind) ==
    LET sp == <<Span(pos, start, end, kind, loop.p)>> \o loop.sp
    IN  IF loop.err # "" THEN Raise(loop.err, sp)
        ELSE IF loop.p # end THEN Raise("ValueError", sp)
        ELSE Return(Lst(loop.items), end, sp)

\* 0x80-0xb7: length = b0 - 0x80; return data[start:end], end
rlp_short_string(d, pos, b0) ==
    LET length == b0 - 128
        start  == pos + 1
        end    == start + length
    IN  IF length = 0
        THEN Return(Str(<<>>), pos + 1, <<Span(pos, start, start, "str", start)>>)
        ELSE Return(Str(Slice(d, start, end)), end,
                    <<Span(pos, start, end, "str", end)>>)

\* Mutant of rlp_long_string: len_of_len = b0 - 0xb8.
rlp_long_string_off_by_one(d, pos, b0) ==
    LET len_of_len == b0 - 184
        start   == pos + 1
        end     == start + len_of_len
        length  == int_from_bytes(Slice(d, start, end))
        s_start == end
        s_end   == s_start + length
    IN  Return(Str(Slice(d, s_start, s_end)), s_end,
               <<Span(pos, s_start, s_end, "longstr", s_end)>>)

\* 0xb8-0xbf: len_of_len = b0 - 0xb7; the length is read big-endian from the
\* next len_of_len bytes; return data[s_start:s_end], s_end
rlp_long_string(d, pos, b0) ==
    LET len_of_len == b0 - 183
        start   == pos + 1
        end     == start + len_of_len
        length  == int_from_bytes(Slice(d, start, end))
        s_start == end
        s_end   == s_start + length
    IN  Return(Str(Slice(d, s_start, s_end)), s_end,
               <<Span(pos, s_start, s_end, "longstr", s_end)>>)

\* Mutant of rlp_short_list: the items are returned inside one more list
\* (return [items], end).
rlp_short_list_wrapped(d, pos, b0) ==
    LET length == b0 - 192
        start  == pos + 1
        end    == start + length
        r      == rlp_list_close(rlp_list_items(d, start, end, <<>>, <<>>),
                                 pos, start, end, "list")
    IN  IF r.err # "" THEN r ELSE Return(Lst(<<r.obj>>), r.pos, r.sp)

\* 0xc0-0xf7: length = b0 - 0xc0 bytes of children follow
rlp_short_list(d, pos, b0) ==
    LET length == b0 - 192
        start  == pos + 1
        end    == start + length
    IN  rlp_list_close(rlp_list_items(d, start, end, <<>>, <<>>),
                       pos, start, end, "list")

\* Mutant of rlp_long_list: a length below 56, or with a leading zero byte,
\* is refused (the canonical form is enforced).
rlp_long_list_canonical(d, pos, b0) ==
    LET len_of_len == b0 - 247
        start   == pos + 1
        end     == start + len_of_len
        field   == Slice(d, start, end)
        length  == int_from_bytes(field)
        l_start == end
        l_end   == l_start + length
    IN  IF length < 56 \/ (field # <<>> /\ field[1] = 0)
        THEN Raise("ValueError", <<Span(pos, l_start, l_end, "longlist", l_start)>>)
        ELSE rlp_list_close(rlp_list_items(d, l_start, l_end, <<>>, <<>>),
                            pos, l_start, l_end, "longlist")

\* 0xf8-0xff: len_of_len = b0 - 0xf7; the length is read big-endian from the
\* next len_of_len bytes; the children follow
rlp_long_list(d, pos, b0) ==
    LET len_of_len == b0 - 247
        start   == pos + 1
        end     == start + len_of_len
        length  == int_from_bytes(Slice(d, start, end))
        l_start == end
        l_end   == l_start + length
    IN  rlp_list_close(rlp_list_items(d, l_start, l_end, <<>>, <<>>),
                       pos, l_start, l_end, "longlist")

_rlp_decode_at(d, pos) ==
    IF pos >= Len(d)
    THEN Raise("ValueError", <<Span(pos, pos, pos, "none", pos)>>)
    ELSE LET b0 == d[pos + 1]
         IN  IF b0 <= 127       \* 0x00-0x7f: return bytes([b0]), pos + 1
             THEN Return(Str(<<b0>>), pos + 1,
                         <<Span(pos, pos, pos + 1, "byte", pos + 1)>>)
             ELSE IF 128 <= b0 /\ b0 <= 183 THEN rlp_short_string(d, pos, b0)
             ELSE IF 184 <= b0 /\ b0 <= 191 THEN rlp_long_string(d, pos, b0)
             ELSE IF 192 <= b0 /\ b0 <= 247 THEN rlp_short_list(d, pos, b0)
             ELSE IF 248 <= b0 /\ b0 <= 255 THEN rlp_long_list(d, pos, b0)
             ELSE Raise("ValueError", <<>>)

\* Mutant of rlp_top_check: the test is pos > len(data).
rlp_top_check_gt(r, d) ==
    IF r.err # "" THEN r
    ELSE IF r.pos > Len(d) THEN Raise("ValueError", r.sp)
    ELSE r

\* Mutant of rlp_top_check: the test is pos < len(data).
rlp_top_check_lt(r, d) ==
    IF r.err # "" THEN r
    ELSE IF r.pos < Len(d) THEN Raise("ValueError", r.sp)
    ELSE r

\* obj, pos = _rlp_decode_at(data, 0); if pos != len(data): raise ValueError
rlp_top_check(r, d) ==
    IF r.err # "" THEN r
    ELSE IF r.pos # Len(d) THEN Raise("ValueError", r.sp)
    ELSE r

\* Mutant of rlp_decode: the node is returned without the test on pos.
rlp_decode_unchecked(d) == _rlp_decode_at(d, 0)

rlp_decode(d) == rlp_top_check(_rlp_decode_at(d, 0), d)

(***************************************************************************)
(* ENR decoding helpers                                                    *)
(*                                                                         *)
(* A helper that may raise gives [err, v]: err = "" and the value, or the  *)
(* exception class and no value.  A Python str value is PyStr(s), s its    *)
(* code points; None is the value None.                                    *)
(***************************************************************************)

None == [t |-> "None"]

PyStr(s) == [t |-> "str", s |-> s]

Ok(v) == [err |-> "", v |-> v]

Exc(e) == [err |-> e, v |-> None]

\* binascii.Error and UnicodeDecodeError are subclasses of ValueError.
IsValueError(e) == e \in {"ValueError", "binascii.Error", "UnicodeDecodeError"}

\* The value of a character in the base64 alphabet, -1 outside it.
\* urlsafe_b64decode maps '-' to '+' and '_' to '/' and then decodes the
\* standard alphabet, so '+' and '/' keep their standard values.
b64_value(c) ==
    IF 65 <= c /\ c <= 90 THEN c - 65             \* 'A'..'Z'
    ELSE IF 97 <= c /\ c <= 122 THEN c - 71       \* 'a'..'z'
    ELSE IF 48 <= c /\ c <= 57 THEN c + 4         \* '0'..'9'
    ELSE IF c = 45 \/ c = 43 THEN 62              \* '-', '+'
    ELSE IF c = 95 \/ c = 47 THEN 63              \* '_', '/'
    ELSE -1

\* binascii.a2b_base64 as base64.b64decode calls it (not strict): characters
\* outside the alphabet are skipped; decoding stops at the '=' that completes
\* a quad; data left in an incomplete quad at the end is an error.
RECURSIVE a2b_base64(_, _, _, _, _, _)
a2b_base64(s, i, quad_pos, leftchar, pads, bin) ==
    IF i > Len(s)
    THEN IF quad_pos # 0 THEN Exc("binascii.Error") ELSE Ok(bin)
    ELSE LET c == s[i]
             v == b64_value(c)
         IN  IF c = 61                                        \* '='
             THEN IF quad_pos >= 2 /\ quad_pos + pads + 1 >= 4
                  THEN Ok(bin)
                  ELSE a2b_base64(s, i + 1, quad_pos, leftchar,
                                  IF quad_pos >= 2 THEN pads + 1 ELSE pads, bin)
             ELSE IF v = -1
             THEN a2b_base64(s, i + 1, quad_pos, leftchar, pads, bin)
             ELSE IF quad_pos = 0
             THEN a2b_base64(s, i + 1, 1, v, 0, bin)
             ELSE IF quad_pos = 1
             THEN a2b_base64(s, i + 1, 2, v % 16, 0,
                             Append(bin, leftchar * 4 + v \div 16))
             ELSE IF quad_pos = 2
             THEN a2b_base64(s, i + 1, 3, v % 4, 0,
                             Append(bin, leftchar * 16 + v \div 4))
             ELSE a2b_base64(s, i + 1, 0, 0, 0, Append(bin, leftchar * 64 + v))

\* pad = "=" * ((4 - len(s) % 4) % 4); base64.urlsafe_b64decode(s + pad)
\* A str with a character outside ASCII is refused with ValueError.
_b64url_decode_nopad(s) ==
    LET pad == [i \in 1..((4 - (Len(s) % 4)) % 4) |-> 61]
    IN  IF \E i \in 1..Len(s) : s[i] >= 128
        THEN Exc("ValueError")
        ELSE a2b_base64(s \o pad, 1, 0, 0, 0, <<>>)

IsCont(b, i) == i <= Len(b) /\ 128 <= b[i] /\ b[i] <= 191

\* bytes.decode("utf-8", errors="strict"): the code points, or
\* UnicodeDecodeError on a byte sequence that is not well-formed UTF-8
\* (overlong forms, surrogates and values above U+10FFFF included).
RECURSIVE utf8_decode(_, _, _)
utf8_decode(b, i, acc) ==
    IF i > Len(b) THEN Ok(acc)
    ELSE LET c == b[i]
         IN  IF c <= 127 THEN utf8_decode(b, i + 1, Append(acc, c))
             ELSE IF 194 <= c /\ c <= 223 /\ IsCont(b, i + 1)
             THEN utf8_decode(b, i + 2,
                      Append(acc, (c - 192) * 64 + (b[i + 1] - 128)))
             ELSE IF /\ 224 <= c /\ c <= 239
                     /\ IsCont(b, i + 1) /\ IsCont(b, i + 2)
                     /\ (c = 224 => b[i + 1] >= 160)
                     /\ (c = 237 => b[i + 1] <= 159)
             THEN utf8_decode(b, i + 3,
                      Append(acc, (c - 224) * 4096 + (b[i + 1] - 128) * 64
                                  + (b[i + 2] - 128)))
             ELSE IF /\ 240 <= c /\ c <= 244
                     /\ IsCont(b, i + 1) /\ IsCont(b, i + 2) /\ IsCont(b, i + 3)
                     /\ (c = 240 => b[i + 1] >= 144)
                     /\ (c = 244 => b[i + 1] <= 143)
             THEN utf8_decode(b, i + 4,
                      Append(acc, (c - 240) * 262144 + (b[i + 1] - 128) * 4096
                                  + (b[i + 2] - 128) * 64 + (b[i + 3] - 128)))
             ELSE Exc("UnicodeDecodeError")

\* One lower-case hex digit as a character.
HexDigit(n) == IF n < 10 THEN 48 + n ELSE 87 + n

\* bytes.hex()
RECURSIVE bytes_hex(_)
bytes_hex(b) ==
    IF b = <<>> THEN <<>>
    ELSE <<HexDigit(Head(b) \div 16), HexDigit(Head(b) % 16)>> \o bytes_hex(Tail(b))

\* str(x) for an int x >= 0
RECURSIVE int_str(_)
int_str(n) == IF n < 10 THEN <<48 + n>> ELSE int_str(n \div 10) \o <<48 + (n % 10)>>

\* sep.join(parts)
RECURSIVE str_join(_, _)
str_join(sep, parts) ==
    IF parts = <<>> THEN <<>>
    ELSE IF Len(parts) = 1 THEN parts[1]
    ELSE parts[1] \o sep \o str_join(sep, Tail(parts))

\* Mutant of _bytes_to_int: the bytes are read with signed=True.
_bytes_to_int_signed(x) ==
    IF IsStr(x)
    THEN Ok(IF x.b = <<>> THEN 0
            ELSE IF x.b[1] >= 128 THEN int_from_bytes(<<x.b[1] - 256>> \o Tail(x.b))
            ELSE int_from_bytes(x.b))
    ELSE IF x.items = <<>> THEN Ok(0)
    ELSE Exc("TypeError")

\* int.from_bytes(b, "big") if b else 0.  A non-empty list is truthy and
\* int.from_bytes refuses its items (bytes or lists) with TypeError.
_bytes_to_int(x) ==
    IF IsStr(x) THEN Ok(IF x.b = <<>> THEN 0 ELSE int_from_bytes(x.b))
    ELSE IF x.items = <<>> THEN Ok(0)
    ELSE Exc("TypeError")

\* Mutant of _decode_ip: the groups of a 16-byte value are written without
\* their leading zeros (format(n, "x") instead of .hex()).
_decode_ip_short_groups(x) ==
    LET strip(g) == IF g[1] # 48 THEN g
                    ELSE IF g[2] # 48 THEN SubSeq(g, 2, 4)
                    ELSE IF g[3] # 48 THEN SubSeq(g, 3, 4)
                    ELSE <<g[4]>>
    IN  IF IsStr(x)
        THEN IF Len(x.b) = 4
             THEN Ok(PyStr(str_join(<<46>>, [i \in 1..4 |-> int_str(x.b[i])])))
             ELSE IF Len(x.b) = 16
             THEN Ok(PyStr(str_join(<<58>>,
                      [i \in 1..8 |-> strip(bytes_hex(SubSeq(x.b, 2 * i - 1, 2 * i)))])))
             ELSE Ok(PyStr(bytes_hex(x.b)))
        ELSE IF Len(x.items) = 4
        THEN Ok([t |-> "str", joined |-> x.items])
        ELSE Exc("AttributeError")

\* A list has len() but neither .hex() nor slices with .hex(): a list of 4
\* items is joined as the str() of its items (kept here as the items
\* themselves), any other list raises AttributeError.
_decode_ip(x) ==
    IF IsStr(x)
    THEN IF Len(x.b) = 4
         THEN Ok(PyStr(str_join(<<46>>, [i \in 1..4 |-> int_str(x.b[i])])))
         ELSE IF Len(x.b) = 16
         THEN Ok(PyStr(str_join(<<58>>,
                      [i \in 1..8 |-> bytes_hex(SubSeq(x.b, 2 * i - 1, 2 * i))])))
         ELSE Ok(PyStr(bytes_hex(x.b)))
    ELSE IF Len(x.items) = 4
    THEN Ok([t |-> "str", joined |-> x.items])
    ELSE Exc("AttributeError")

\* b.decode("utf-8"), or b itself on UnicodeDecodeError; a list has no
\* .decode().
_try_utf8(x) ==
    IF IsStr(x)
    THEN LET u == utf8_decode(x.b, 1, <<>>)
         IN  IF u.err = "" THEN Ok(PyStr(u.v)) ELSE Ok(x)
    ELSE Exc("AttributeError")

\* "0x" + b.hex(); a list has no .hex().
_hex0x(x) ==
    IF IsStr(x) THEN Ok(PyStr(<<48, 120>> \o bytes_hex(x.b)))
    ELSE Exc("AttributeError")

PyLen(x) == IF IsStr(x) THEN Len(x.b) ELSE Len(x.items)

\* Mutant of _decode_eth2_forkid: the length test is len(v) < 16.
_decode_eth2_forkid_len_lt(v) ==
    IF PyLen(v) < 16
    THEN IF IsStr(v)
         THEN Ok([raw |-> PyStr(<<48, 120>> \o bytes_hex(v.b)),
                  note |-> "unexpected length"])
         ELSE Exc("AttributeError")
    ELSE IF IsLst(v) THEN Exc("TypeError")
    ELSE Ok([fork_digest |-> PyStr(<<48, 120>> \o bytes_hex(SubSeq(v.b, 1, 4))),
             next_fork_version |-> PyStr(<<48, 120>> \o bytes_hex(SubSeq(v.b, 5, 8))),
             next_fork_epoch |-> int_from_bytes(SubSeq(v.b, 9, 16))])

\* A list of 16 items passes the length test; int.from_bytes(v[8:16], "big")
\* then refuses its items with TypeError, before any .hex() is reached.
_decode_eth2_forkid(v) ==
    IF PyLen(v) # 16
    THEN LET h == _hex0x(v)
         IN  IF h.err # "" THEN Exc(h.err)
             ELSE Ok([raw |-> h.v, note |-> "unexpected length"])
    ELSE IF IsLst(v) THEN Exc("TypeError")
    ELSE Ok([fork_digest |-> PyStr(<<48, 120>> \o bytes_hex(SubSeq(v.b, 1, 4))),
             next_fork_version |-> PyStr(<<48, 120>> \o bytes_hex(SubSeq(v.b, 5, 8))),
             next_fork_epoch |-> int_from_bytes(SubSeq(v.b, 9, 16))])

\* The keys the source names, as str values (code points).
K_id == <<105, 100>>
K_ip == <<105, 112>>
K_ip6 == <<105, 112, 54>>
K_udp == <<117, 100, 112>>
K_tcp == <<116, 99, 112>>
K_quic == <<113, 117, 105, 99>>
K_udp6 == <<117, 100, 112, 54>>
K_tcp6 == <<116, 99, 112, 54>>
K_quic6 == <<113, 117, 105, 99, 54>>
K_secp256k1 == <<115, 101, 99, 112, 50, 53, 54, 107, 49>>
K_eth2 == <<101, 116, 104, 50>>
K_nfd == <<110, 102, 100>>
K_attnets == <<97, 116, 116, 110, 101, 116, 115>>
K_syncnets == <<115, 121, 110, 99, 110, 101, 116, 115>>
K_cgc == <<99, 103, 99>>
K_eth == <<101, 116, 104>>
K_snap == <<115, 110, 97, 112>>
K_les == <<108, 101, 115>>

\* Mutant of classify_enr: a key counts when its value is truthy
\* (kv.get("eth2") or ... instead of "eth2" in kv or ...).
classify_enr_truthy(m) ==
    LET has(k) == k \in DOMAIN m /\ m[k] # Str(<<>>)
        has_cl == has(K_eth2) \/ has(K_attnets) \/ has(K_syncnets) \/ has(K_cgc)
                  \/ has(K_nfd)
        has_el == has(K_eth) \/ has(K_snap) \/ has(K_les)
    IN  IF has_cl /\ has_el THEN "cl+el (mixed ENR)"
        ELSE IF has_cl THEN "consensus-layer (CL)"
        ELSE IF has_el THEN "execution-layer (EL)"
        ELSE "unknown/transport-only"

classify_enr(m) ==
    LET has_cl == \/ K_eth2 \in DOMAIN m \/ K_attnets \in DOMAIN m
                  \/ K_syncnets \in DOMAIN m \/ K_cgc \in DOMAIN m
                  \/ K_nfd \in DOMAIN m
        has_el == K_eth \in DOMAIN m \/ K_snap \in DOMAIN m \/ K_les \in DOMAIN m
    IN  IF has_cl /\ has_el THEN "cl+el (mixed ENR)"
        ELSE IF has_cl THEN "consensus-layer (CL)"
        ELSE IF has_el THEN "execution-layer (EL)"
        ELSE "unknown/transport-only"

(***************************************************************************)
(* decode_enr                                                              *)
(*                                                                         *)
(* A dict is a function on its keys: lookups, membership and equality of   *)
(* Python dicts do not depend on the insertion order.  The dict `out` has  *)
(* the names of its entries as keys; kv and raw_kv and extras have str     *)
(* keys (code points).                                                     *)
(***************************************************************************)

EmptyDict == [k \in {} |-> None]

\* Mutant of enr_startswith: the test is startswith("enr").
enr_startswith_no_colon(s) == Len(s) >= 3 /\ SubSeq(s, 1, 3) = <<101, 110, 114>>

\* enr.startswith("enr:")
enr_startswith(s) == Len(s) >= 4 /\ SubSeq(s, 1, 4) = <<101, 110, 114, 58>>

\* isinstance(rlp, list) and len(rlp) >= 2
enr_shape_ok(node) == IsLst(node) /\ Len(node.items) >= 2

\* (len(rlp) - 2) % 2 == 0
enr_pair_count_ok(items) == (Len(items) - 2) % 2 = 0

\* Mutant of enr_key: the key is decoded with errors="replace".
enr_key_replace(k_raw) ==
    IF ~IsStr(k_raw) THEN Exc("ValueError")
    ELSE IF utf8_decode(k_raw.b, 1, <<>>).err = "" THEN utf8_decode(k_raw.b, 1, <<>>)
    ELSE Ok(<<65533>>)

\* A key must be bytes (else ValueError) and decode as strict UTF-8 (else
\* UnicodeDecodeError).
enr_key(k_raw) ==
    IF ~IsStr(k_raw) THEN Exc("ValueError")
    ELSE utf8_decode(k_raw.b, 1, <<>>)

\* Mutant of enr_value: every list is stored as empty bytes (the test
\* len(v_raw) == 0 is missing).
enr_value_any_list(v_raw) == IF IsLst(v_raw) THEN Str(<<>>) ELSE v_raw

\* Mutant of enr_value: the empty list is stored as it is.
enr_value_as_is(v_raw) == v_raw

\* The value stored for v_raw: b"" for an empty list, the bytes for bytes, a
\* non-empty list as it is.
enr_value(v_raw) ==
    IF IsLst(v_raw) /\ Len(v_raw.items) = 0 THEN Str(<<>>)
    ELSE IF IsStr(v_raw) THEN v_raw
    ELSE v_raw

\* Mutant of dict_set: kv.setdefault(key, value).
dict_set_default(m, key, value) ==
    [k \in DOMAIN m \cup {key} |-> IF k \in DOMAIN m THEN m[k] ELSE value]

\* kv[key] = value
dict_set(m, key, value) ==
    [k \in DOMAIN m \cup {key} |-> IF k = key THEN value ELSE m[k]]

\* for i in range(2, len(rlp), 2): ... ; i is the 0-based index of the key.
RECURSIVE enr_pairs(_, _, _)
enr_pairs(items, i, m) ==
    IF i >= Len(items) THEN Ok(m)
    ELSE LET key == enr_key(items[i + 1])
         IN  IF key.err # "" THEN Exc(key.err)
             ELSE enr_pairs(items, i + 2,
                            dict_set(m, key.v, enr_value(items[i + 2])))

\* The helper a field is decoded with.
FieldDecode(how, x) ==
    IF how = "_try_utf8" THEN _try_utf8(x)
    ELSE IF how = "_decode_ip" THEN _decode_ip(x)
    ELSE IF how = "_bytes_to_int" THEN _bytes_to_int(x)
    ELSE IF how = "_hex0x" THEN _hex0x(x)
    ELSE _decode_eth2_forkid(x)

\* One `if key in kv: out[name] = f(kv[key])` of the common field decoding.
Field(name, key, how, m) ==
    IF key \in DOMAIN m
    THEN [name |-> name, on |-> TRUE, r |-> FieldDecode(how, m[key])]
    ELSE [name |-> name, on |-> FALSE, r |-> Ok(None)]

\* The common field decoding, in the order of the source.
enr_fields(m) ==
    << Field("id", K_id, "_try_utf8", m),
       Field("ip", K_ip, "_decode_ip", m),
       Field("ip6", K_ip6, "_decode_ip", m),
       Field("udp", K_udp, "_bytes_to_int", m),
       Field("tcp", K_tcp, "_bytes_to_int", m),
       Field("quic", K_quic, "_bytes_to_int", m),
       Field("udp6", K_udp6, "_bytes_to_int", m),
       Field("tcp6", K_tcp6, "_bytes_to_int", m),
       Field("quic6", K_quic6, "_bytes_to_int", m),
       Field("secp256k1", K_secp256k1, "_hex0x", m),
       Field("eth2", K_eth2, "_decode_eth2_forkid", m),
       Field("nfd", K_nfd, "_hex0x", m),
       Field("attnets", K_attnets, "_hex0x", m),
       Field("syncnets", K_syncnets, "_hex0x", m),
       Field("cgc", K_cgc, "_bytes_to_int", m) >>

\* The exception of the first field decoding that raises, "" when none does.
FirstErr(fs) ==
    LET bad == {i \in 1..Len(fs) : fs[i].on /\ fs[i].r.err # ""}
    IN  IF bad = {} THEN ""
        ELSE fs[CHOOSE i \in bad : \A j \in bad : i <= j].r.err

\* Mutant of KnownKeys: "id" is missing from the set the extras loop skips.
KnownKeysNoId ==
    {K_ip, K_ip6, K_udp, K_tcp, K_quic, K_udp6, K_tcp6, K_quic6,
     K_secp256k1, K_eth2, K_nfd, K_attnets, K_syncnets, K_cgc}

\* The keys the extras loop skips.
KnownKeys ==
    {K_id, K_ip, K_ip6, K_udp, K_tcp, K_quic, K_udp6, K_tcp6, K_quic6,
     K_secp256k1, K_eth2, K_nfd, K_attnets, K_syncnets, K_cgc}

\* Mutant of enr_extra: the integer is read with signed=True.
enr_extra_signed(v) ==
    IF IsStr(v)
    THEN [hex  |-> _hex0x(v).v,
          utf8 |-> IF _try_utf8(v).v.t = "str" THEN _try_utf8(v).v ELSE None,
          int  |-> IF Len(v.b) <= 8
                   THEN IF v.b # <<>> /\ v.b[1] >= 128
                        THEN int_from_bytes(<<v.b[1] - 256>> \o Tail(v.b))
                        ELSE int_from_bytes(v.b)
                   ELSE None]
    ELSE [value |-> v]

\* One entry of extras (lines 211-218).
enr_extra(v) ==
    IF IsStr(v)
    THEN [hex  |-> _hex0x(v).v,
          utf8 |-> IF _try_utf8(v).v.t = "str" THEN _try_utf8(v).v ELSE None,
          int  |-> IF Len(v.b) <= 8 THEN _bytes_to_int(v).v ELSE None]
    ELSE [value |-> v]

enr_extras(m) == [k \in DOMAIN m \ KnownKeys |-> enr_extra(m[k])]

enr_raw_kv(m) == [k \in DOMAIN m |-> IF IsStr(m[k]) THEN _hex0x(m[k]).v ELSE m[k]]

\* out = {"seq": ..., "signature": ..., "raw_kv": ...} (lines 176-180)
enr_out_head(signature, seq, m) ==
    ("seq" :> seq)
    @@ ("signature" :> _hex0x(IF IsStr(signature) THEN signature ELSE Str(<<>>)).v)
    @@ ("raw_kv" :> enr_raw_kv(m))

\* The entries the common field decoding adds to out (lines 183-204).
enr_out_fields(fs) ==
    [n \in {fs[i].name : i \in {j \in 1..Len(fs) : fs[j].on}} |->
        fs[CHOOSE i \in 1..Len(fs) : fs[i].name = n].r.v]

\* if extras: out["extras"] = extras (lines 219-220)
enr_out_extras(m) ==
    IF DOMAIN enr_extras(m) # {} THEN "extras" :> enr_extras(m) ELSE EmptyDict

\* The dict decode_enr returns, when no field decoding raises.
enr_out(signature, seq, m, fs) ==
    enr_out_head(signature, seq, m)
    @@ enr_out_fields(fs)
    @@ enr_out_extras(m)
    @@ ("role_guess" :> classify_enr(m))

\* The outcome of a call of decode_enr: the exception class or "", the dict
\* returned, and the locals raw, rlp (as the outcome of rlp_decode) and kv.
EnrRaise(e, raw, r) == [err |-> e, out |-> None, kv |-> EmptyDict, raw |-> raw, ret |-> r]

NoRet == [err |-> "none", obj |-> NoObj, pos |-> -1, sp |-> <<>>]

\* Mutant of enr_record: signature = rlp[1].
enr_record_sig_index(raw, r) ==
    IF ~enr_shape_ok(r.obj) THEN EnrRaise("ValueError", raw, r)
    ELSE LET items == r.obj.items
             seq   == _bytes_to_int(items[2])
         IN  IF seq.err # "" THEN EnrRaise(seq.err, raw, r)
             ELSE IF ~enr_pair_count_ok(items) THEN EnrRaise("ValueError", raw, r)
             ELSE LET m == enr_pairs(items, 2, EmptyDict)
                  IN  IF m.err # "" THEN EnrRaise(m.err, raw, r)
                      ELSE LET fs == enr_fields(m.v)
                           IN  IF FirstErr(fs) # ""
                               THEN EnrRaise(FirstErr(fs), raw, r)
                               ELSE [err |-> "",
                                     out |-> enr_out(items[2], seq.v, m.v, fs),
                                     kv  |-> m.v, raw |-> raw, ret |-> r]

\* decode_enr from the decoded rlp on (lines 149-224).
enr_record(raw, r) ==
    IF ~enr_shape_ok(r.obj) THEN EnrRaise("ValueError", raw, r)
    ELSE LET items == r.obj.items
             seq   == _bytes_to_int(items[2])
         IN  IF seq.err # "" THEN EnrRaise(seq.err, raw, r)
             ELSE IF ~enr_pair_count_ok(items) THEN EnrRaise("ValueError", raw, r)
             ELSE LET m == enr_pairs(items, 2, EmptyDict)
                  IN  IF m.err # "" THEN EnrRaise(m.err, raw, r)
                      ELSE LET fs == enr_fields(m.v)
                           IN  IF FirstErr(fs) # ""
                               THEN EnrRaise(FirstErr(fs), raw, r)
                               ELSE [err |-> "",
                                     out |-> enr_out(items[1], seq.v, m.v, fs),
                                     kv  |-> m.v, raw |-> raw, ret |-> r]

decode_enr(s) ==
    IF ~enr_startswith(s) THEN EnrRaise("ValueError", <<>>, NoRet)
    ELSE LET raw == _b64url_decode_nopad(SubSeq(s, 5, Len(s)))
         IN  IF raw.err # "" THEN EnrRaise(raw.err, <<>>, NoRet)
             ELSE LET r == rlp_decode(raw.v)
                  IN  IF r.err # "" THEN EnrRaise(r.err, raw.v, r)
                      ELSE enr_record(raw.v, r)

(***************************************************************************)
(* Inputs of the RLP decoder                                               *)
(***************************************************************************)

\* Longest buffer drawn byte by byte from ByteAlphabet.
MaxLen == 4

\* Longest run of filler bytes put behind a header of LongHeaders.
MaxFill == 57

\* One or more bytes of every prefix class, and the small numbers that a
\* length field needs: 0x00 0x01 0x02 | 0x80 0x81 | 0xb8 0xb9 | 0xc0 0xc1 0xc2
\* | 0xf8 0xf9.
ByteAlphabet == {0, 1, 2, 128, 129, 184, 185, 192, 193, 194, 248, 249}

ShortBufs == UNION {[1..n -> ByteAlphabet] : n \in 0..MaxLen}

\* Headers around the 55/56 boundary between the short and the long forms:
\* 0xb7 | 0xb8 0x37 | 0xb8 0x38 | 0xb9 0x00 0x38 | 0xb8 0x39 | 0xf7 |
\* 0xf8 0x38 | 0xf9 0x00 0x38.
LongHeaders ==
    {<<183>>, <<184, 55>>, <<184, 56>>, <<185, 0, 56>>, <<184, 57>>,
     <<247>>, <<248, 56>>, <<249, 0, 56>>}

Fill(n) == [i \in 1..n |-> 65]

LongBufs == {h \o Fill(n) : h \in LongHeaders, n \in 54..MaxFill}

RlpInputs == ShortBufs \cup LongBufs

(***************************************************************************)
(* Inputs of decode_enr                                                    *)
(*                                                                         *)
(* A record text is built from a tree: the tree is RLP-encoded, the bytes  *)
(* are written in unpadded URL-safe base64 behind "enr:".  The texts that  *)
(* are not records are listed one by one.                                  *)
(***************************************************************************)

\* Most pairs in a record whose pairs are all drawn from PairPool.
MaxPairs == 2

RECURSIVE EncNode(_)
RECURSIVE EncItems(_)
EncNode(n) ==
    IF IsStr(n)
    THEN IF Len(n.b) = 1 /\ n.b[1] <= 127 THEN n.b
         ELSE IF Len(n.b) <= 55 THEN <<128 + Len(n.b)>> \o n.b
         ELSE <<184, Len(n.b)>> \o n.b
    ELSE LET payload == EncItems(n.items)
         IN  IF Len(payload) <= 55 THEN <<192 + Len(payload)>> \o payload
             ELSE <<248, Len(payload)>> \o payload

EncItems(items) ==
    IF items = <<>> THEN <<>>
    ELSE EncNode(Head(items)) \o EncItems(Tail(items))

B64Char(v) ==
    IF v < 26 THEN 65 + v
    ELSE IF v < 52 THEN 71 + v
    ELSE IF v < 62 THEN v - 4
    ELSE IF v = 62 THEN 45
    ELSE 95

RECURSIVE B64Enc(_)
B64Enc(b) ==
    IF b = <<>> THEN <<>>
    ELSE IF Len(b) = 1
    THEN <<B64Char(b[1] \div 4), B64Char((b[1] % 4) * 16)>>
    ELSE IF Len(b) = 2
    THEN <<B64Char(b[1] \div 4), B64Char((b[1] % 4) * 16 + b[2] \div 16),
           B64Char((b[2] % 16) * 4)>>
    ELSE <<B64Char(b[1] \div 4), B64Char((b[1] % 4) * 16 + b[2] \div 16),
           B64Char((b[2] % 16) * 4 + b[3] \div 64), B64Char(b[3] % 64)>>
         \o B64Enc(SubSeq(b, 4, Len(b)))

EnrPrefix == <<101, 110, 114, 58>>

EnrText(tree) == EnrPrefix \o B64Enc(EncNode(tree))

\* Keys: the keys the source names, the other key "zz", and the two-byte
\* UTF-8 key "e-acute".
GoodKeys ==
    KnownKeys \cup {K_eth, K_snap, K_les, <<122, 122>>}

KeyNodes == {Str(k) : k \in GoodKeys} \cup {Str(<<195, 169>>)}

\* Values for any key: empty bytes, the empty list, bytes of 1, 2, 4, 8, 9
\* and 16 bytes (small as integers), bytes that are not UTF-8, a list of one
\* item and a list of four items, and the two bytes of "e-acute".
Zeros(n) == [i \in 1..n |-> 0]

AnyValues ==
    {Str(<<>>), Lst(<<>>), Str(<<7>>), Str(<<0, 9>>), Str(<<10, 0, 0, 1>>),
     Str(Zeros(5) \o <<1, 2, 3>>), Str(Zeros(7) \o <<1, 2>>),
     Str(Zeros(13) \o <<1, 2, 3>>), Str(<<255>>), Str(<<195, 169>>),
     Lst(<<Str(<<1>>)>>), Lst(<<Str(<<1>>), Str(<<2>>), Lst(<<>>), Str(<<>>)>>)}

\* Values for the keys whose value is never read as an integer.
FullIp6 == <<32, 1, 13, 184, 0, 0, 0, 0, 0, 0, 255, 0, 0, 66, 131, 41>>

FullForkId == <<203, 13, 26, 204, 6, 0, 0, 0, 0, 0, 0, 0, 0, 1, 226, 64>>

SpecialPairs ==
    {<<Str(K_ip), Str(<<89, 210, 101, 45>>)>>, <<Str(K_ip), Str(FullIp6)>>,
     <<Str(K_ip6), Str(FullIp6)>>, <<Str(K_eth2), Str(FullForkId)>>,
     <<Str(K_eth2), Str(Zeros(14) \o <<1>>)>>,
     <<Str(K_eth2), Str(Zeros(16) \o <<1>>)>>,
     <<Str(K_attnets), Str(<<0, 6, 0, 0, 0, 0, 0, 0>>)>>,
     <<Str(K_nfd), Str(<<140, 159, 98, 254>>)>>}

OnePair == {<<k, v>> : k \in KeyNodes, v \in AnyValues} \cup SpecialPairs

\* Pairs for the records of several pairs: a key twice with different values,
\* empty lists and empty bytes, keys that are a list or not UTF-8, values
\* that are non-empty lists, a consensus-layer key, "id" and the key "zz"
\* that the source does not name.
PairPool ==
    {<<Str(K_ip), Str(<<10, 0, 0, 1>>)>>, <<Str(K_ip), Str(<<127, 0, 0, 1>>)>>,
     <<Str(K_ip), Lst(<<>>)>>, <<Str(K_eth), Lst(<<>>)>>, <<Str(K_eth), Str(<<>>)>>,
     <<Str(K_udp), Str(<<35, 40>>)>>, <<Str(K_eth), Lst(<<Str(<<1>>)>>)>>,
     <<Lst(<<>>), Str(<<1>>)>>, <<Str(<<255>>), Str(<<1>>)>>,
     <<Str(K_cgc), Str(<<4>>)>>, <<Str(K_id), Str(<<118, 52>>)>>,
     <<Str(<<122, 122>>), Str(<<7>>)>>}

PairSeqs ==
    UNION {[1..n -> PairPool] : n \in 0..MaxPairs} \cup {<<p>> : p \in OnePair}

RECURSIVE FlatPairs(_)
FlatPairs(ps) == IF ps = <<>> THEN <<>> ELSE Head(ps) \o FlatPairs(Tail(ps))

\* Element 0 and element 1 of a record: bytes or lists.
HeadChoices ==
    {<<Str(<<168, 92>>), Str(<<1, 154>>)>>, <<Lst(<<>>), Str(<<>>)>>,
     <<Str(<<168, 92>>), Lst(<<>>)>>, <<Str(<<>>), Str(<<0, 5>>)>>,
     <<Str(<<168, 92>>), Lst(<<Str(<<1>>)>>)>>,
     <<Lst(<<Str(<<168, 92>>)>>), Str(<<1>>)>>}

\* Records in which one key occurs three times.
TripleTrees ==
    {Lst(<<Str(<<168, 92>>), Str(<<1>>), Str(K_ip), a, Str(K_ip), b, Str(K_ip), c>>) :
         a \in {Str(<<10, 0, 0, 1>>)}, b \in {Lst(<<>>), Str(<<127, 0, 0, 1>>)},
         c \in {Str(<<>>), Str(<<89, 210, 101, 45>>), Str(<<10, 0, 0, 1>>)}}

RecordTrees ==
    {Lst(h \o FlatPairs(ps)) : h \in HeadChoices, ps \in PairSeqs}
    \cup TripleTrees
    \cup {Lst(<<Str(<<168, 92>>), Str(<<1>>)>> \o FlatPairs(ps) \o <<Str(K_ip)>>) :
              ps \in PairSeqs}

\* Trees that are not a list of two or more items.
ShortTrees == {Str(<<1, 2>>), Str(<<>>), Lst(<<>>), Lst(<<Str(<<168, 92>>)>>)}

\* Texts that are not "enr:" and a base64 text of an RLP item.
OtherTexts ==
    LET good == B64Enc(EncNode(Lst(<<Str(<<1>>), Str(<<1>>)>>)))
    IN  {<<>>, <<101, 110, 114>>, good, <<69, 78, 82, 58>> \o good,
         <<101, 110, 114, 59>> \o good, <<32>> \o EnrPrefix \o good,
         EnrPrefix, EnrPrefix \o <<65>>, EnrPrefix \o good \o <<65>>,
         EnrPrefix \o good \o <<233>>, EnrPrefix \o <<33>> \o good,
         EnrPrefix \o good \o <<61>>,
         EnrPrefix \o B64Enc(EncNode(Lst(<<Str(<<1>>), Str(<<1>>)>>)) \o <<0>>),
         EnrPrefix \o B64Enc(<<194, 1>>), EnrPrefix \o B64Enc(<<129>>)}

EnrInputs == {EnrText(t) : t \in RecordTrees \cup ShortTrees} \cup OtherTexts

NoOut == [err |-> "none", v |-> None]

(***************************************************************************)
(* The RLP decoder as a program: one call of rlp_decode on one buffer.     *)
(***************************************************************************)

Init ==
    /\ data \in RlpInputs
    /\ ret = NoRet
    /\ enr = <<>>
    /\ kv = EmptyDict
    /\ out = NoOut
    /\ pc = "call"
    /\ calls = <<>>
    /\ heap = <<>>

RlpDecode ==
    /\ pc = "call"
    /\ ret' = rlp_decode(data)
    /\ pc' = "done"
    /\ UNCHANGED <<data, enr, kv, out, calls, heap>>

Next == RlpDecode

Spec == Init /\ [][Next]_vars

(***************************************************************************)
(* The record decoder as a program: one call of decode_enr on one text.    *)
(* data and ret show the locals raw and rlp of the call, kv its local kv.  *)
(* calls and heap are used by the specification of concurrent calls only.  *)
(***************************************************************************)

InitEnr ==
    /\ enr \in EnrInputs
    /\ data = <<>>
    /\ ret = NoRet
    /\ kv = EmptyDict
    /\ out = NoOut
    /\ pc = "call"
    /\ calls = <<>>
    /\ heap = <<>>

DecodeEnr ==
    /\ pc = "call"
    /\ LET r == decode_enr(enr)
       IN  /\ data' = r.raw
           /\ ret' = r.ret
           /\ kv' = r.kv
           /\ out' = [err |-> r.err, v |-> r.out]
    /\ pc' = "done"
    /\ UNCHANGED <<enr, calls, heap>>

NextEnr == DecodeEnr

SpecEnr == InitEnr /\ [][NextEnr]_vars

(***************************************************************************)
(* Properties of the RLP decoder                                           *)
(***************************************************************************)

Accepted == pc = "done" /\ ret.err = ""

Rejected == pc = "done" /\ ret.err = "ValueError" /\ ret.obj = NoObj

\* The nodes of a decoded tree in the order the decoder entered them.
RECURSIVE Flatten(_)
RECURSIVE FlattenAll(_)
Flatten(n) == IF IsLst(n) THEN <<n>> \o FlattenAll(n.items) ELSE <<n>>

FlattenAll(items) ==
    IF items = <<>> THEN <<>>
    ELSE Flatten(Head(items)) \o FlattenAll(Tail(items))

\* C1: rlp_decode accepts a buffer only when the top-level node ends exactly
\* at len(buffer): the returned position and the declared end of the
\* top-level node equal the buffer length, and a buffer that is an accepted
\* buffer followed by one more byte is rejected.
C1_ExactConsumption ==
    pc = "done" =>
        /\ ret.err = "" =>
               /\ ret.pos = Len(data)
               /\ ret.sp[1].pos = 0
               /\ ret.sp[1].end = Len(data)
        /\ (data # <<>> /\ rlp_decode(SubSeq(data, 1, Len(data) - 1)).err = "")
               => Rejected

C1_Witness ==
    /\ pc = "done"
    /\ Len(data) >= 3
    /\ rlp_decode(SubSeq(data, 1, Len(data) - 1)).err = ""
    /\ ret.err = "ValueError"

\* A node of the call whose length prefix is cut by the end of the buffer
\* (hdr > n), whose declared payload passes the end of the buffer (end > n),
\* or that is expected at or beyond the end of the buffer (pos >= n).
OutOfBuffer(s, n) == s.pos >= n \/ s.hdr > n \/ s.end > n

\* C2: when any node at any nesting level has a truncated length prefix,
\* declares a payload past the end of the buffer, or is expected at or beyond
\* the end of the buffer, rlp_decode raises and returns no node.
C2_OutOfBufferRejected ==
    (pc = "done" /\ \E i \in 1..Len(ret.sp) : OutOfBuffer(ret.sp[i], Len(data)))
        => Rejected

\* A nested long-form node whose length prefix is cut by the end of the buffer.
C2_Witness ==
    /\ Rejected
    /\ \E i \in 2..Len(ret.sp) :
           /\ ret.sp[i].kind \in {"longstr", "longlist"}
           /\ ret.sp[i].hdr > Len(data)

IsListSpan(s) == s.kind \in {"list", "longlist"}

\* C3: whenever the child loop of a list node (short or long form) stops at a
\* cursor other than the declared end of the list span, rlp_decode raises.
C3_ListSpanExact ==
    (pc = "done" /\ \E i \in 1..Len(ret.sp) :
                        IsListSpan(ret.sp[i]) /\ ret.sp[i].stop # ret.sp[i].end)
        => Rejected

\* The last child of a nested list overruns the list's span, inside the buffer.
C3_Witness ==
    /\ Rejected
    /\ \E i \in 2..Len(ret.sp) :
           /\ IsListSpan(ret.sp[i])
           /\ ret.sp[i].stop > ret.sp[i].end
           /\ ret.sp[i].stop <= Len(data)

\* The string the prefix table gives for the node that starts at pos.
StringPerTable(d, pos, node) ==
    LET b0 == d[pos + 1]
    IN  IF b0 <= 127 THEN node = Str(<<b0>>)
        ELSE IF b0 <= 183
        THEN LET n == b0 - 128
             IN  /\ n <= 55
                 /\ pos + 1 + n <= Len(d)
                 /\ node = Str(SubSeq(d, pos + 2, pos + 1 + n))
        ELSE IF b0 <= 191
        THEN LET k == b0 - 183
             IN  /\ pos + 1 + k <= Len(d)
                 /\ LET L == int_from_bytes(SubSeq(d, pos + 2, pos + 1 + k))
                    IN  /\ pos + 1 + k + L <= Len(d)
                        /\ node = Str(SubSeq(d, pos + 2 + k, pos + 1 + k + L))
        ELSE TRUE

\* The length of a buffer that holds one string node and nothing else.
TopStringExact(d) ==
    LET b0 == d[1]
    IN  IF b0 <= 127 THEN Len(d) = 1
        ELSE IF b0 <= 183 THEN Len(d) = 1 + (b0 - 128)
        ELSE IF b0 <= 191
        THEN /\ Len(d) >= 1 + (b0 - 183)
             /\ Len(d) = 1 + (b0 - 183)
                           + int_from_bytes(SubSeq(d, 2, 1 + (b0 - 183)))
        ELSE TRUE

StringsPerTable ==
    Accepted =>
        LET fl == Flatten(ret.obj)
        IN  /\ Len(fl) = Len(ret.sp)
            /\ TopStringExact(data)
            /\ \A i \in 1..Len(fl) :
                   StringPerTable(data, ret.sp[i].pos, fl[i])

\* C4 (amended): string decoding follows the prefix table; a string of 56
\* bytes or more is decoded only from a long-form prefix (0xb8..0xbf), and a
\* short-form prefix never yields more than 55 bytes.
C4_StringTable ==
    /\ StringsPerTable
    /\ Accepted =>
           LET fl == Flatten(ret.obj)
           IN  \A i \in 1..Len(fl) :
                   IsStr(fl[i]) =>
                       LET b0 == data[ret.sp[i].pos + 1]
                       IN  /\ Len(fl[i].b) >= 56 => (184 <= b0 /\ b0 <= 191)
                           /\ b0 <= 183 => Len(fl[i].b) <= 55

\* The 56-byte string behind the header 0xb8 0x38.
C4_Witness ==
    /\ Accepted
    /\ data = <<184, 56>> \o Fill(56)
    /\ ret.obj = Str(Fill(56))

\* C4 as stated: ... and a 56-byte string is decoded only from the header
\* 0xb8 0x38.
C4_Original ==
    /\ StringsPerTable
    /\ Accepted =>
           LET fl == Flatten(ret.obj)
           IN  \A i \in 1..Len(fl) :
                   IsStr(fl[i]) =>
                       LET p == ret.sp[i].pos
                       IN  /\ Len(fl[i].b) = 56 => (data[p + 1] = 184 /\ data[p + 2] = 56)
                           /\ data[p + 1] <= 183 => Len(fl[i].b) <= 55

\* C5: the first byte of a node decides its variant: below 0xc0 a String,
\* 0xc0 or above a List; the nodes of the tree, taken in list order, are the
\* nodes the decoder met at increasing positions of the input; [0x80] is the
\* empty String and [0xc0] the empty List.
C5_VariantByFirstByte ==
    pc = "done" =>
        /\ data = <<128>> => (ret.err = "" /\ ret.obj = Str(<<>>))
        /\ data = <<192>> => (ret.err = "" /\ ret.obj = Lst(<<>>))
        /\ ret.err = "" =>
               LET fl == Flatten(ret.obj)
               IN  /\ Len(fl) = Len(ret.sp)
                   /\ \A i \in 1..Len(fl) :
                          LET b0 == data[ret.sp[i].pos + 1]
                          IN  /\ b0 < 192 => IsStr(fl[i])
                              /\ b0 >= 192 => IsLst(fl[i])
                              /\ b0 <= 127 => fl[i] = Str(<<b0>>)
                              /\ i > 1 => ret.sp[i].pos > ret.sp[i - 1].pos

\* A list that holds a String and then a List.
C5_Witness ==
    /\ Accepted
    /\ ret.obj = Lst(<<Str(<<1>>), Lst(<<>>)>>)


(***************************************************************************)
(* Properties of decode_enr                                                *)
(***************************************************************************)

EnrDone == pc = "done"

EnrAccepted == EnrDone /\ out.err = ""

EnrRejected == EnrDone /\ out.err # "" /\ out.v = None

HasPrefix(s) ==
    Len(s) >= 4 /\ s[1] = 101 /\ s[2] = 110 /\ s[3] = 114 /\ s[4] = 58

\* The call decoded its text to a tree: ret is what rlp_decode returned.
HasTree == EnrDone /\ HasPrefix(enr) /\ ret.err = ""

\* The positions (from 1) of the keys in the items of a record.
KeyPos(items) == {i \in 3..Len(items) : i % 2 = 1}

ValidUtf8(b) == utf8_decode(b, 1, <<>>).err = ""

GoodKey(x) == IsStr(x) /\ ValidUtf8(x.b)

\* C6: decode_enr returns no record when the text does not start with
\* "enr:", when the decoded top-level node is not a List, when it is a List
\* of fewer than 2 items, and when the number of items after the first two
\* is odd.
C6_RecordRejection ==
    EnrDone =>
        /\ ~HasPrefix(enr) => EnrRejected
        /\ (HasTree /\ ~IsLst(ret.obj)) => EnrRejected
        /\ (HasTree /\ IsLst(ret.obj) /\ Len(ret.obj.items) < 2) => EnrRejected
        /\ (HasTree /\ IsLst(ret.obj) /\ Len(ret.obj.items) % 2 = 1) => EnrRejected

\* A list of five items: three items follow the first two.
C6_Witness ==
    /\ HasTree
    /\ IsLst(ret.obj)
    /\ Len(ret.obj.items) = 5
    /\ GoodKey(ret.obj.items[3])
    /\ out.err = "ValueError"

\* C7: decode_enr returns no record when any item in a key position is a
\* List, or is bytes that are not valid UTF-8, wherever that pair stands.
C7_BadKeyRejected ==
    (HasTree /\ IsLst(ret.obj)
     /\ \E i \in KeyPos(ret.obj.items) : ~GoodKey(ret.obj.items[i]))
        => EnrRejected

\* The second pair has a key that is not UTF-8, behind a well-formed pair.
C7_Witness ==
    /\ HasTree
    /\ IsLst(ret.obj)
    /\ Len(ret.obj.items) = 6
    /\ GoodKey(ret.obj.items[3])
    /\ IsStr(ret.obj.items[5]) /\ ~ValidUtf8(ret.obj.items[5].b)
    /\ out.err = "UnicodeDecodeError"

\* The positions of the keys that decode to the str k.
PosOfKey(items, k) ==
    {i \in KeyPos(items) : GoodKey(items[i]) /\ utf8_decode(items[i].b, 1, <<>>).v = k}

Last(S) == CHOOSE i \in S : \A j \in S : j <= i

\* The bytes kept for a value item: an empty list counts as empty bytes.
Stored(v) == IF v = Lst(<<>>) THEN Str(<<>>) ELSE v

\* C8: in an accepted record the map has exactly the keys of the pairs, and
\* holds for each key the value of the last pair with that key.
C8_LastWriteWins ==
    EnrAccepted =>
        LET items == ret.obj.items
        IN  /\ \A i \in KeyPos(items) :
                   utf8_decode(items[i].b, 1, <<>>).v \in DOMAIN kv
            /\ \A k \in DOMAIN kv :
                   /\ PosOfKey(items, k) # {}
                   /\ kv[k] = Stored(items[Last(PosOfKey(items, k)) + 1])

\* A key occurs three times, and its last value differs from the others.
C8_Witness ==
    /\ EnrAccepted
    /\ \E k \in DOMAIN kv :
           LET ps == PosOfKey(ret.obj.items, k)
           IN  /\ Cardinality(ps) = 3
               /\ \A i \in ps \ {Last(ps)} :
                      Stored(ret.obj.items[i + 1]) # kv[k]

\* The items of a record with every empty-list value replaced by empty bytes.
EmptyListsAsBytes(items) ==
    [i \in 1..Len(items) |->
        IF i >= 4 /\ i % 2 = 0 /\ items[i] = Lst(<<>>) THEN Str(<<>>) ELSE items[i]]

HasEmptyListValue(items) ==
    \E i \in 4..Len(items) : i % 2 = 0 /\ items[i] = Lst(<<>>)

\* C9: a pair whose value is an empty List is stored as empty bytes, and the
\* call ends as the call on the same record with empty bytes in its place:
\* same map, same dict returned.
C9_EmptyListIsEmptyBytes ==
    (HasTree /\ IsLst(ret.obj) /\ HasEmptyListValue(ret.obj.items)) =>
        LET items == ret.obj.items
            other == decode_enr(EnrText(Lst(EmptyListsAsBytes(items))))
        IN  /\ out.err = "" =>
                \A k \in DOMAIN kv :
                    items[Last(PosOfKey(items, k)) + 1] = Lst(<<>>)
                        => kv[k] = Str(<<>>)
            /\ other.err = out.err
            /\ other.kv = kv
            /\ other.out = out.v

\* An accepted record stores an empty list under "ip" and under "eth".
C9_Witness ==
    /\ EnrAccepted
    /\ {K_ip, K_eth} \subseteq DOMAIN kv
    /\ \A k \in {K_ip, K_eth} :
           ret.obj.items[Last(PosOfKey(ret.obj.items, k)) + 1] = Lst(<<>>)

\* C10: a text with the prefix that decodes to a List of two or more items,
\* an even number of them after the first two, every key bytes of valid
\* UTF-8, gives a record, whatever the values of the pairs are.  (Element 1
\* is read by _bytes_to_int before the pairs are; the statement is taken for
\* the records whose elements 0 and 1 are bytes, so that only the values of
\* the pairs decide.)
C10_ValuesNeverReject ==
    (HasTree /\ IsLst(ret.obj) /\ Len(ret.obj.items) >= 2
     /\ Len(ret.obj.items) % 2 = 0
     /\ IsStr(ret.obj.items[1]) /\ IsStr(ret.obj.items[2])
     /\ \A i \in KeyPos(ret.obj.items) : GoodKey(ret.obj.items[i]))
        => out.err = ""

\* A record whose element 1 and whose values are bytes or empty lists, and
\* whose keys are bytes of valid UTF-8.
BytesRecord ==
    /\ HasTree /\ IsLst(ret.obj) /\ Len(ret.obj.items) >= 2
    /\ Len(ret.obj.items) % 2 = 0
    /\ IsStr(Stored(ret.obj.items[2]))
    /\ \A i \in KeyPos(ret.obj.items) :
           GoodKey(ret.obj.items[i]) /\ IsStr(Stored(ret.obj.items[i + 1]))

RECURSIVE Pow256(_)
Pow256(n) == IF n = 0 THEN 1 ELSE 256 * Pow256(n - 1)

\* The unsigned number a byte sequence writes, most significant byte first.
RECURSIVE BigEndian(_)
BigEndian(b) ==
    IF b = <<>> THEN 0
    ELSE IF Head(b) = 0 THEN BigEndian(Tail(b))
    ELSE Head(b) * Pow256(Len(b) - 1) + BigEndian(Tail(b))

Hex0x(b) == PyStr(<<48, 120>> \o bytes_hex(b))

\* C11: a record with bytes v under "eth2" is accepted; when len(v) = 16 its
\* eth2 entry has fork_digest = v[0..3], next_fork_version = v[4..7] and
\* next_fork_epoch = the big-endian number of v[8..15], and nothing else;
\* for any other length it has the hex of v and the note, and none of the
\* three fields.
C11_ForkId ==
    (BytesRecord /\ \E i \in KeyPos(ret.obj.items) : ret.obj.items[i] = Str(K_eth2))
        => /\ out.err = ""
           /\ K_eth2 \in DOMAIN kv
           /\ "eth2" \in DOMAIN out.v
           /\ LET v == kv[K_eth2].b
                  e == out.v["eth2"]
              IN  IF Len(v) = 16
                  THEN /\ DOMAIN e = {"fork_digest", "next_fork_version",
                                      "next_fork_epoch"}
                       /\ e.fork_digest = Hex0x(SubSeq(v, 1, 4))
                       /\ e.next_fork_version = Hex0x(SubSeq(v, 5, 8))
                       /\ e.next_fork_epoch = BigEndian(SubSeq(v, 9, 16))
                  ELSE /\ DOMAIN e = {"raw", "note"}
                       /\ e.raw = Hex0x(v)
                       /\ e.note = "unexpected length"

\* The fork id cb0d1acc 06000000 000000000001e240 is decoded.
C11_Witness ==
    /\ EnrAccepted
    /\ K_eth2 \in DOMAIN kv
    /\ kv[K_eth2] = Str(FullForkId)
    /\ out.v["eth2"] =
           [fork_digest |-> PyStr(<<48, 120, 99, 98, 48, 100, 49, 97, 99, 99>>),
            next_fork_version |-> PyStr(<<48, 120, 48, 54, 48, 48, 48, 48, 48, 48>>),
            next_fork_epoch |-> 123456]

\* The keys of the pairs of a record, as str values.
RecordKeys(items) ==
    {utf8_decode(items[i].b, 1, <<>>).v : i \in KeyPos(items)}

CLKeys == {K_eth2, K_attnets, K_syncnets, K_cgc, K_nfd}

ELKeys == {K_eth, K_snap, K_les}

\* C12: the role of an accepted record is decided by the keys of its pairs
\* alone: Mixed when a CL key and an EL key are present, ConsensusLayer when
\* only a CL key is, ExecutionLayer when only an EL key is, Unknown when
\* neither; and every record of byte values gets a role.
C12_RoleFromKeys ==
    /\ EnrAccepted =>
           LET keys == RecordKeys(ret.obj.items)
               cl   == keys \cap CLKeys # {}
               el   == keys \cap ELKeys # {}
               role == out.v["role_guess"]
           IN  /\ (cl /\ el) => role = "cl+el (mixed ENR)"
               /\ (cl /\ ~el) => role = "consensus-layer (CL)"
               /\ (~cl /\ el) => role = "execution-layer (EL)"
               /\ (~cl /\ ~el) => role = "unknown/transport-only"
    /\ BytesRecord => (out.err = "" /\ "role_guess" \in DOMAIN out.v)

\* A record with "cgc" and with "eth" whose value is empty is Mixed.
C12_Witness ==
    /\ EnrAccepted
    /\ DOMAIN kv = {K_cgc, K_eth}
    /\ kv[K_eth] = Str(<<>>)
    /\ out.v["role_guess"] = "cl+el (mixed ENR)"

\* C13: a call of decode_enr either returns a record or fails with a
\* ValueError (binascii.Error and UnicodeDecodeError are ValueErrors) and
\* returns nothing; no other failure happens, also when element 1 or a value
\* is a List.
C13_TwoOutcomes ==
    EnrDone =>
        \/ out.err = "" /\ out.v # None
        \/ IsValueError(out.err) /\ out.v = None

(***************************************************************************)
(* Concurrent calls                                                        *)
(*                                                                         *)
(* Several calls of rlp_decode and decode_enr run at once, one statement   *)
(* (or one loop iteration) per step, in any interleaving.  A call has a    *)
(* frame with its locals; the dicts a call creates (kv, out) are objects   *)
(* on the heap that the frame refers to by their identity, as in Python.   *)
(* bytes, str and int values are immutable and are kept in the frame.      *)
(***************************************************************************)

\* Calls running at once.
MaxCalls == 2

\* {} : the identity of a new dict, different from every dict on the heap.
new_dict(h) == Len(h) + 1

\* The heap after the object id is (re)bound to the dict d.
heap_put(h, id, d) == IF id > Len(h) THEN Append(h, d) ELSE [h EXCEPT ![id] = d]

\* The frame of a call that has not started; arg keeps the argument as the
\* caller passed it.
Frame(kind, arg) ==
    [kind |-> kind, arg |-> arg,
     enr |-> IF kind = "enr" THEN arg ELSE <<>>,
     data |-> IF kind = "rlp" THEN arg ELSE <<>>,
     at |-> NoRet, rlp |-> NoObj, signature |-> NoObj, seq |-> 0, i |-> 0,
     kv |-> 0, out |-> 0,
     pc |-> IF kind = "enr" THEN "l142" ELSE "l13",
     err |-> "", res |-> None]

\* The arguments of the concurrent calls: a record of one pair and a record
\* of two pairs that are accepted, a record with a key that is not UTF-8, a
\* text without the prefix, and a buffer.
ParArgs ==
    << <<"enr", EnrText(Lst(<<Str(<<168, 92>>), Str(<<2>>), Str(K_eth), Lst(<<>>)>>))>>,
       <<"enr", EnrText(Lst(<<Str(<<168, 92>>), Str(<<1>>), Str(K_ip),
                             Str(<<10, 0, 0, 1>>), Str(K_udp), Str(<<35, 40>>)>>))>>,
       <<"enr", EnrText(Lst(<<Str(<<168, 92>>), Str(<<3>>), Str(<<255>>), Str(<<1>>)>>))>>,
       <<"enr", <<101, 110, 114>>>>,
       <<"rlp", <<193, 1>>>> >>

\* The calls are interchangeable: their arguments are drawn in the order of
\* ParArgs, equal arguments included.
InitPar ==
    /\ \E f \in [1..MaxCalls -> 1..Len(ParArgs)] :
           /\ \A i, j \in 1..MaxCalls : i < j => f[i] <= f[j]
           /\ calls = [p \in 1..MaxCalls |-> Frame(ParArgs[f[p]][1], ParArgs[f[p]][2])]
    /\ heap = <<>>
    /\ data = <<>>
    /\ ret = NoRet
    /\ enr = <<>>
    /\ kv = EmptyDict
    /\ out = NoOut
    /\ pc = "par"

ParGoto(p, c) ==
    calls' = [calls EXCEPT ![p] = c] /\ UNCHANGED <<data, ret, enr, kv, out, pc>>

ParRaise(p, e) ==
    /\ ParGoto(p, [calls[p] EXCEPT !.pc = "done", !.err = e])
    /\ UNCHANGED heap

\* if not enr.startswith("enr:"): raise ValueError
ParPrefix ==
    \E p \in DOMAIN calls :
        LET c == calls[p]
        IN  /\ c.pc = "l142"
            /\ IF ~enr_startswith(c.enr) THEN ParRaise(p, "ValueError")
               ELSE ParGoto(p, [c EXCEPT !.pc = "l146"]) /\ UNCHANGED heap

\* payload = enr[4:]; raw = _b64url_decode_nopad(payload)
ParB64 ==
    \E p \in DOMAIN calls :
        LET c == calls[p]
            raw == _b64url_decode_nopad(SubSeq(c.enr, 5, Len(c.enr)))
        IN  /\ c.pc = "l146"
            /\ IF raw.err # "" THEN ParRaise(p, raw.err)
               ELSE ParGoto(p, [c EXCEPT !.data = raw.v, !.pc = "l13"])
                    /\ UNCHANGED heap

\* obj, pos = _rlp_decode_at(data, 0)
ParRlpAt ==
    \E p \in DOMAIN calls :
        LET c == calls[p]
            r == _rlp_decode_at(c.data, 0)
        IN  /\ c.pc = "l13"
            /\ IF r.err # "" THEN ParRaise(p, r.err)
               ELSE ParGoto(p, [c EXCEPT !.at = r, !.pc = "l14"])
                    /\ UNCHANGED heap

\* if pos != len(data): raise ValueError; return obj.  rlp_decode returns
\* to its caller, or into the local rlp of decode_enr.
ParRlpCheck ==
    \E p \in DOMAIN calls :
        LET c == calls[p]
            r == rlp_top_check(c.at, c.data)
        IN  /\ c.pc = "l14"
            /\ IF r.err # "" THEN ParRaise(p, r.err)
               ELSE IF c.kind = "rlp"
               THEN ParGoto(p, [c EXCEPT !.res = r.obj, !.pc = "done"])
                    /\ UNCHANGED heap
               ELSE ParGoto(p, [c EXCEPT !.rlp = r.obj, !.pc = "l149"])
                    /\ UNCHANGED heap

\* if not isinstance(rlp, list) or len(rlp) < 2: raise ValueError
ParShape ==
    \E p \in DOMAIN calls :
        LET c == calls[p]
        IN  /\ c.pc = "l149"
            /\ IF ~enr_shape_ok(c.rlp) THEN ParRaise(p, "ValueError")
               ELSE ParGoto(p, [c EXCEPT !.pc = "l152"]) /\ UNCHANGED heap

\* signature = rlp[0]; seq = _bytes_to_int(rlp[1])
ParSeq ==
    \E p \in DOMAIN calls :
        LET c == calls[p]
            seq == _bytes_to_int(c.rlp.items[2])
        IN  /\ c.pc = "l152"
            /\ IF seq.err # "" THEN ParRaise(p, seq.err)
               ELSE ParGoto(p, [c EXCEPT !.signature = c.rlp.items[1],
                                         !.seq = seq.v, !.pc = "l156"])
                    /\ UNCHANGED heap

\* if (len(rlp) - 2) % 2 != 0: raise ValueError
ParCount ==
    \E p \in DOMAIN calls :
        LET c == calls[p]
        IN  /\ c.pc = "l156"
            /\ IF ~enr_pair_count_ok(c.rlp.items) THEN ParRaise(p, "ValueError")
               ELSE ParGoto(p, [c EXCEPT !.pc = "l159"]) /\ UNCHANGED heap

\* Mutant of ParNewKv: kv is one dict shared by every call and emptied at
\* this line (a module-level dict with kv.clear() instead of a local).
ParNewKvShared ==
    \E p \in DOMAIN calls :
        LET c == calls[p]
            made == {calls[q].kv : q \in DOMAIN calls} \ {0}
            id == IF made = {} THEN new_dict(heap) ELSE CHOOSE x \in made : TRUE
        IN  /\ c.pc = "l159"
            /\ heap' = heap_put(heap, id, EmptyDict)
            /\ ParGoto(p, [c EXCEPT !.kv = id, !.i = 2, !.pc = "l160"])

\* kv = {}, and the loop variable before the first iteration
ParNewKv ==
    \E p \in DOMAIN calls :
        LET c == calls[p]
            id == new_dict(heap)
        IN  /\ c.pc = "l159"
            /\ heap' = heap_put(heap, id, EmptyDict)
            /\ ParGoto(p, [c EXCEPT !.kv = id, !.i = 2, !.pc = "l160"])

\* One iteration of for i in range(2, len(rlp), 2), or the end of the loop.
ParPair ==
    \E p \in DOMAIN calls :
        LET c == calls[p]
            items == c.rlp.items
        IN  /\ c.pc = "l160"
            /\ IF c.i >= Len(items)
               THEN ParGoto(p, [c EXCEPT !.pc = "l176"]) /\ UNCHANGED heap
               ELSE LET key == enr_key(items[c.i + 1])
                    IN  IF key.err # "" THEN ParRaise(p, key.err)
                        ELSE /\ heap' = [heap EXCEPT ![c.kv] =
                                            dict_set(@, key.v, enr_value(items[c.i + 2]))]
                             /\ ParGoto(p, [c EXCEPT !.i = c.i + 2])

\* out = {"seq": seq, "signature": ..., "raw_kv": ...}
ParNewOut ==
    \E p \in DOMAIN calls :
        LET c == calls[p]
            id == new_dict(heap)
        IN  /\ c.pc = "l176"
            /\ heap' = heap_put(heap, id, enr_out_head(c.signature, c.seq, heap[c.kv]))
            /\ ParGoto(p, [c EXCEPT !.out = id, !.pc = "l183"])

\* The common field decoding: out[name] = f(kv[key]) for the keys in kv.
ParFields ==
    \E p \in DOMAIN calls :
        LET c == calls[p]
            fs == enr_fields(heap[c.kv])
        IN  /\ c.pc = "l183"
            /\ IF FirstErr(fs) # "" THEN ParRaise(p, FirstErr(fs))
               ELSE /\ heap' = [heap EXCEPT ![c.out] = enr_out_fields(fs) @@ @]
                    /\ ParGoto(p, [c EXCEPT !.pc = "l207"])

\* extras = {...}; if extras: out["extras"] = extras
ParExtras ==
    \E p \in DOMAIN calls :
        LET c == calls[p]
        IN  /\ c.pc = "l207"
            /\ heap' = [heap EXCEPT ![c.out] = enr_out_extras(heap[c.kv]) @@ @]
            /\ ParGoto(p, [c EXCEPT !.pc = "l222"])

\* out["role_guess"] = classify_enr(kv)
ParRole ==
    \E p \in DOMAIN calls :
        LET c == calls[p]
        IN  /\ c.pc = "l222"
            /\ heap' = [heap EXCEPT ![c.out] =
                           ("role_guess" :> classify_enr(heap[c.kv])) @@ @]
            /\ ParGoto(p, [c EXCEPT !.pc = "l224"])

\* return out
ParReturn ==
    \E p \in DOMAIN calls :
        LET c == calls[p]
        IN  /\ c.pc = "l224"
            /\ ParGoto(p, [c EXCEPT !.res = c.out, !.pc = "done"])
            /\ UNCHANGED heap

NextPar ==
    \/ ParPrefix
    \/ ParB64
    \/ ParRlpAt
    \/ ParRlpCheck
    \/ ParShape
    \/ ParSeq
    \/ ParCount
    \/ ParNewKv
    \/ ParPair
    \/ ParNewOut
    \/ ParFields
    \/ ParExtras
    \/ ParRole
    \/ ParReturn

SpecPar == InitPar /\ [][NextPar]_vars

\* The outcome of a call that ran alone, from its argument.
Alone(kind, arg) ==
    IF kind = "rlp"
    THEN [err |-> rlp_decode(arg).err, v |-> rlp_decode(arg).obj]
    ELSE [err |-> decode_enr(arg).err, v |-> decode_enr(arg).out]

\* The outcome of a finished call: what it raised, or the value it returned
\* as it is on the heap now.
Outcome(c) ==
    IF c.err # "" THEN [err |-> c.err, v |-> c.res]
    ELSE IF c.kind = "rlp" THEN [err |-> "", v |-> c.res]
    ELSE [err |-> "", v |-> heap[c.res]]

\* C14: in every interleaving of the steps of the calls, the argument of a
\* call stays as it was passed, and a call that has finished has the
\* outcome of the same call running alone, at the time it finishes and as
\* long as other calls go on running.
C14_CallsIndependent ==
    pc = "par" =>
        \A p \in DOMAIN calls :
            LET c == calls[p]
            IN  /\ (IF c.kind = "enr" THEN c.enr ELSE c.data) = c.arg
                /\ c.pc = "done" =>
                       /\ Outcome(c).err = Alone(c.kind, c.arg).err
                       /\ Outcome(c).err = "" =>
                              Outcome(c).v = Alone(c.kind, c.arg).v

\* Call 1 has returned its dict while call 2, whose kv was created before
\* that dict, is between two iterations of its pair loop.
C14_Witness ==
    /\ pc = "par"
    /\ calls[1].pc = "done" /\ calls[1].kind = "enr" /\ calls[1].err = ""
    /\ calls[2].pc = "l160" /\ calls[2].i = 4
    /\ calls[1].kv < calls[2].kv /\ calls[2].kv < calls[1].out
    /\ DOMAIN heap[calls[2].kv] = {K_ip}
    /\ heap[calls[1].res]["role_guess"] = "execution-layer (EL)"

\* The nesting of lists in a tree: 0 for bytes, 1 for a list of bytes.
RECURSIVE Depth(_)
RECURSIVE DepthAll(_)
Depth(n) == IF IsLst(n) THEN 1 + DepthAll(n.items) ELSE 0

DepthAll(items) ==
    IF items = <<>> THEN 0
    ELSE LET h == Depth(Head(items))
             t == DepthAll(Tail(items))
         IN  IF h > t THEN h ELSE t

\* The number of lists the decoder was inside of when it entered the i-th
\* node, the node itself included when it is a list: a list decodes children
\* only at positions from its header up to its declared end.
ListsAround(sp, i) ==
    Cardinality({k \in 1..i : /\ IsListSpan(sp[k])
                               /\ sp[k].pos <= sp[i].pos
                               /\ sp[i].pos < sp[k].end})

\* A maximum nesting depth as a configuration would set it.  The source has
\* no such setting and no statement that counts the nesting.
MaxNestingDepth == 2

\* C15: rlp_decode fails with ValueError on every buffer whose lists are
\* nested deeper than the configured maximum: no call ends with a tree that
\* is deeper, and no call descends deeper before it fails.
C15_DepthLimited ==
    pc = "done" =>
        /\ ret.err = "" => Depth(ret.obj) <= MaxNestingDepth
        /\ \A i \in 1..Len(ret.sp) : ListsAround(ret.sp, i) <= MaxNestingDepth

\* C16, as amended: every value in the map of an accepted record is bytes or
\* a non-empty List: bytes are stored as they are, an empty List as empty
\* bytes, a non-empty List as the List itself.
C16_ValuesStored ==
    EnrAccepted =>
        \A k \in DOMAIN kv :
            LET item == ret.obj.items[Last(PosOfKey(ret.obj.items, k)) + 1]
            IN  /\ IsStr(kv[k]) \/ (IsLst(kv[k]) /\ kv[k].items # <<>>)
                /\ IsStr(item) => kv[k] = item
                /\ (IsLst(item) /\ item.items = <<>>) => kv[k] = Str(<<>>)
                /\ (IsLst(item) /\ item.items # <<>>) => kv[k] = item

\* An accepted record keeps a non-empty List under "eth" next to bytes.
C16_Witness ==
    /\ EnrAccepted
    /\ DOMAIN kv = {K_eth, K_udp}
    /\ kv[K_eth] = Lst(<<Str(<<1>>)>>)
    /\ kv[K_udp] = Str(<<35, 40>>)

\* C16 as stated: every value in the map of an accepted record is bytes.
C16_Original ==
    EnrAccepted => \A k \in DOMAIN kv : IsStr(kv[k])

\* The well-known keys as the claim lists them, and the name of the entry of
\* the returned dict that reports a key as a semantic field.
ListedKeys ==
    {K_ip, K_ip6, K_udp, K_tcp, K_quic, K_udp6, K_tcp6, K_quic6, K_secp256k1,
     K_eth2, K_nfd, K_attnets, K_syncnets, K_cgc}

FieldName(k) ==
    CASE k = K_id -> "id" [] k = K_ip -> "ip" [] k = K_ip6 -> "ip6"
      [] k = K_udp -> "udp" [] k = K_tcp -> "tcp" [] k = K_quic -> "quic"
      [] k = K_udp6 -> "udp6" [] k = K_tcp6 -> "tcp6" [] k = K_quic6 -> "quic6"
      [] k = K_secp256k1 -> "secp256k1" [] k = K_eth2 -> "eth2"
      [] k = K_nfd -> "nfd" [] k = K_attnets -> "attnets"
      [] k = K_syncnets -> "syncnets" [] k = K_cgc -> "cgc"
      [] OTHER -> ""

\* The keys reported under extras, and the keys reported as a semantic field.
ExtraKeys == IF "extras" \in DOMAIN out.v THEN DOMAIN out.v["extras"] ELSE {}

IsField(k) == FieldName(k) # "" /\ FieldName(k) \in DOMAIN out.v

\* C17, as amended: with the well-known keys being "id" and the fourteen
\* listed keys, a key of the map is under extras exactly when it is not
\* well-known, every key of the map is reported exactly once, as a semantic
\* field or as an extra, and nothing is reported for a key not in the map.
C17_FieldOrExtra ==
    EnrAccepted =>
        /\ \A k \in DOMAIN kv :
               /\ k \in ExtraKeys <=> k \notin ListedKeys \cup {K_id}
               /\ IsField(k) <=> k \notin ExtraKeys
        /\ ExtraKeys \subseteq DOMAIN kv
        /\ \A k \in ListedKeys \cup {K_id} : IsField(k) => k \in DOMAIN kv

\* "id" is reported as a field and "zz" as an extra.
C17_Witness ==
    /\ EnrAccepted
    /\ DOMAIN kv = {K_id, <<122, 122>>}
    /\ "id" \in DOMAIN out.v
    /\ ExtraKeys = {<<122, 122>>}

\* C17 as stated: a key of the map is under extras exactly when it is not
\* one of the fourteen listed keys, and is reported exactly once.
C17_Original ==
    EnrAccepted =>
        \A k \in DOMAIN kv :
            /\ k \in ExtraKeys <=> k \notin ListedKeys
            /\ (k \in ListedKeys /\ FieldName(k) \in DOMAIN out.v) <=> k \notin ExtraKeys

\* C18: an extra whose value v is bytes has exactly the entries hex, utf8
\* and int: hex is the hex of v; utf8 is the text of v when v is valid UTF-8
\* and None otherwise; int is the big-endian number of v when len(v) <= 8
\* (0 for empty v) and None when len(v) >= 9.
C18_ExtraRenderings ==
    EnrAccepted =>
        \A k \in ExtraKeys :
            IsStr(kv[k]) =>
                LET v == kv[k].b
                    e == out.v["extras"][k]
                IN  /\ DOMAIN e = {"hex", "utf8", "int"}
                    /\ e.hex = Hex0x(v)
                    /\ ValidUtf8(v) => e.utf8 = PyStr(utf8_decode(v, 1, <<>>).v)
                    /\ ~ValidUtf8(v) => e.utf8 = None
                    /\ Len(v) <= 8 => e.int = BigEndian(v)
                    /\ Len(v) >= 9 => e.int = None

\* An extra of 8 bytes with leading zeros has the int 66051 and a text; in
\* other states an extra of 9 bytes has no int and an extra that is not
\* UTF-8 has no text.
C18_Witness ==
    /\ EnrAccepted
    /\ \E k \in ExtraKeys :
           /\ kv[k] = Str(<<0, 0, 0, 0, 0, 1, 2, 3>>)
           /\ out.v["extras"][k].int = 66051
           /\ out.v["extras"][k].utf8 = PyStr(<<0, 0, 0, 0, 0, 1, 2, 3>>)
           /\ out.v["extras"][k].hex =
                  PyStr(<<48, 120, 48, 48, 48, 48, 48, 48, 48, 48, 48, 48,
                          48, 49, 48, 50, 48, 51>>)

\* The keys whose field is an integer.
IntKeys == {K_udp, K_tcp, K_quic, K_udp6, K_tcp6, K_quic6, K_cgc}

\* C19: in an accepted record the sequence and the fields udp, tcp, quic,
\* udp6, tcp6, quic6 and cgc that are present equal the big-endian unsigned
\* number of all their raw bytes: 0 for empty bytes, never negative, and the
\* same with or without leading zero bytes.
C19_BigEndianFields ==
    EnrAccepted =>
        /\ IsStr(ret.obj.items[2]) =>
               /\ out.v["seq"] = BigEndian(ret.obj.items[2].b)
               /\ out.v["seq"] >= 0
        /\ \A k \in IntKeys \cap DOMAIN kv :
               /\ IsStr(kv[k])
               /\ FieldName(k) \in DOMAIN out.v
               /\ out.v[FieldName(k)] = BigEndian(kv[k].b)
               /\ out.v[FieldName(k)] >= 0
               /\ kv[k].b = <<>> => out.v[FieldName(k)] = 0

\* The sequence 00 05 is 5 and a field of the bytes 00 09 is 9.
C19_Witness ==
    /\ EnrAccepted
    /\ ret.obj.items[2] = Str(<<0, 5>>)
    /\ out.v["seq"] = 5
    /\ \E k \in IntKeys \cap DOMAIN kv :
           kv[k] = Str(<<0, 9>>) /\ out.v[FieldName(k)] = 9

\* C20: the signature of an accepted record is read from element 0 alone:
\* the hex of its bytes when element 0 is bytes, the hex of no bytes when it
\* is a List; and a record ends as the same record with empty bytes as
\* element 0 does, so a List as element 0 rejects nothing.
C20_Signature ==
    (HasTree /\ IsLst(ret.obj) /\ Len(ret.obj.items) >= 2) =>
        LET items == ret.obj.items
            other == decode_enr(EnrText(Lst(<<Str(<<>>)>> \o Tail(items))))
        IN  /\ out.err = other.err
            /\ out.err = "" =>
                   /\ IsStr(items[1]) => out.v["signature"] = Hex0x(items[1].b)
                   /\ IsLst(items[1]) => out.v["signature"] = Hex0x(<<>>)

\* An accepted record whose element 0 is a non-empty List, and whose
\* element 1 is the byte 01.
C20_Witness ==
    /\ EnrAccepted
    /\ ret.obj.items[1] = Lst(<<Str(<<168, 92>>)>>)
    /\ ret.obj.items[2] = Str(<<1>>)
    /\ out.v["signature"] = PyStr(<<48, 120>>)
    /\ DOMAIN kv # {}

\* The value of a hex digit character, -1 for any other character.
HexVal(c) ==
    IF 48 <= c /\ c <= 57 THEN c - 48
    ELSE IF 97 <= c /\ c <= 102 THEN c - 87
    ELSE -1

\* The text s spells the byte n as two lower-case hex digits at i and i + 1.
SpellsByte(s, i, n) ==
    /\ i + 1 <= Len(s)
    /\ HexVal(s[i]) = n \div 16
    /\ HexVal(s[i + 1]) = n % 16

\* A byte as a decimal number.
Dec(n) ==
    IF n < 10 THEN <<48 + n>>
    ELSE IF n < 100 THEN <<48 + n \div 10, 48 + (n % 10)>>
    ELSE <<48 + n \div 100, 48 + ((n \div 10) % 10), 48 + (n % 10)>>

\* The rendering of the bytes v as an address, by the length of v.
IsAddressOf(text, v) ==
    /\ text.t = "str"
    /\ LET s == text.s
       IN  IF Len(v) = 4
           THEN s = Dec(v[1]) \o <<46>> \o Dec(v[2]) \o <<46>> \o Dec(v[3])
                        \o <<46>> \o Dec(v[4])
           ELSE IF Len(v) = 16
           THEN /\ Len(s) = 39
                /\ \A g \in 1..7 : s[5 * g] = 58
                /\ \A j \in 1..16 :
                       SpellsByte(s, 2 * (j - 1) + ((j - 1) \div 2) + 1, v[j])
           ELSE /\ Len(s) = 2 * Len(v)
                /\ \A j \in 1..Len(v) : SpellsByte(s, 2 * j - 1, v[j])

\* C21: a record with bytes under "ip" or "ip6" is accepted, and the field
\* is chosen by the length of the value alone, the same for both keys: four
\* decimal numbers joined by dots for 4 bytes, 8 groups of 4 hex digits
\* joined by colons for 16 bytes, the plain hex for any other length.
C21_AddressByLength ==
    /\ (BytesRecord /\ RecordKeys(ret.obj.items) \cap {K_ip, K_ip6} # {})
           => out.err = ""
    /\ EnrAccepted =>
           \A k \in {K_ip, K_ip6} \cap DOMAIN kv :
               IsStr(kv[k]) =>
                   /\ FieldName(k) \in DOMAIN out.v
                   /\ IsAddressOf(out.v[FieldName(k)], kv[k].b)

\* The 16 bytes 2001 0db8 0000 0000 0000 ff00 0042 8329 under "ip6".
C21_Witness ==
    /\ EnrAccepted
    /\ K_ip6 \in DOMAIN kv
    /\ kv[K_ip6] = Str(FullIp6)
    /\ out.v["ip6"] = PyStr(<<50, 48, 48, 49, 58, 48, 100, 98, 56, 58, 48, 48, 48, 48, 58, 48, 48, 48, 48, 58, 48, 48, 48, 48, 58, 102, 102, 48, 48, 58, 48, 48, 52, 50, 58, 56, 51, 50, 57>>)

\* The width of the length field a long-form first byte announces.
LenOfLen(b0) == IF b0 <= 191 THEN b0 - 183 ELSE b0 - 247

IsLongForm(b0) == (184 <= b0 /\ b0 <= 191) \/ (248 <= b0 /\ b0 <= 255)

\* The buffer is a long-form header whose length field, read big-endian
\* over its full width, is the number of bytes that follow it.
LongFormExact(d) ==
    /\ d # <<>>
    /\ IsLongForm(d[1])
    /\ Len(d) >= 1 + LenOfLen(d[1])
    /\ Len(d) = 1 + LenOfLen(d[1]) + BigEndian(SubSeq(d, 2, 1 + LenOfLen(d[1])))

LongFormPayload(d) == SubSeq(d, 2 + LenOfLen(d[1]), Len(d))

\* The shortest list header for a payload of n bytes, n < 256.
ListHeader(n) == IF n <= 55 THEN <<192 + n>> ELSE <<248, n>>

\* C22: a long form whose length field, read big-endian over exactly the
\* width the prefix gives, matches the bytes that follow is decoded whether
\* or not the length has leading zero bytes or is below 56: a long string
\* is accepted as the bytes that follow, a long list ends as the same
\* payload behind the shortest list header does; and a single byte, below
\* 0x80 or not, behind the prefix 0x81 is accepted as that byte.
C22_NotCanonical ==
    (pc = "done" /\ data # <<>>) =>
        /\ (LongFormExact(data) /\ data[1] <= 191) =>
               /\ Accepted
               /\ ret.obj = Str(LongFormPayload(data))
        /\ (LongFormExact(data) /\ data[1] >= 248
              /\ Len(LongFormPayload(data)) < 256) =>
               LET payload == LongFormPayload(data)
                   other == rlp_decode(ListHeader(Len(payload)) \o payload)
               IN  /\ ret.err = other.err
                   /\ ret.obj = other.obj
        /\ (Len(data) = 2 /\ data[1] = 129) =>
               /\ Accepted
               /\ ret.obj = Str(<<data[2]>>)

\* The long list f8 02 81 01: a length below 56 and the byte 01 behind the
\* prefix 0x81.
C22_Witness ==
    /\ Accepted
    /\ data = <<248, 2, 129, 1>>
    /\ ret.obj = Lst(<<Str(<<1>>)>>)

\* The call that entered span s returned: a byte or a string always does, a
\* list does when its child loop stopped at its declared end (a child that
\* raises stops the loop before that end).  The position it returned is
\* s.end.
SpanReturned(s) ==
    \/ s.kind \in {"byte", "str", "longstr"}
    \/ IsListSpan(s) /\ s.stop = s.end

\* C23: every call of _rlp_decode_at that returns gives a position strictly
\* greater than the one it was called with; the calls of one decoding are
\* entered at strictly increasing positions (a child loop's cursor only
\* moves forward); and no call is nested in more list calls, and no
\* returned tree is nested deeper, than the buffer has bytes.
C23_Progress ==
    pc = "done" =>
        /\ \A i \in 1..Len(ret.sp) :
               /\ SpanReturned(ret.sp[i]) => ret.sp[i].end > ret.sp[i].pos
               /\ IsListSpan(ret.sp[i]) => ret.sp[i].stop >= ret.sp[i].hdr
               /\ ListsAround(ret.sp, i) <= Len(data)
        /\ \A i \in 1..(Len(ret.sp) - 1) : ret.sp[i].pos < ret.sp[i + 1].pos
        /\ Accepted =>
               /\ ret.pos > 0
               /\ Depth(ret.obj) <= Len(data)

\* Three bytes, three nested lists: the depth reaches the buffer length.
C23_Witness ==
    /\ Accepted
    /\ data = <<194, 193, 192>>
    /\ Depth(ret.obj) = Len(data)
    /\ ListsAround(ret.sp, 3) = 3

\* Span s has children: it is a list whose payload is not empty.
HasChildren(s) == IsListSpan(s) /\ s.hdr < s.end

\* C24: in every returned tree each String node holds exactly the bytes of
\* its declared span, which lies inside the buffer (the slice was not
\* shortened); every node entered inside a list lies inside that list's
\* payload; and the spans tile the buffer: the first child of a list starts
\* where the payload starts, every other node starts where the node before
\* it ended, a list ends where its last child ended, and the top-level
\* node spans the whole buffer.
C24_Faithful ==
    Accepted =>
        LET fl == Flatten(ret.obj)
            sp == ret.sp
            n  == Len(ret.sp)
        IN  /\ Len(fl) = n
            /\ n >= 1
            /\ sp[1].pos = 0
            /\ sp[1].end = Len(data)
            /\ \A i \in 1..n :
                   /\ sp[i].pos <= sp[i].hdr
                   /\ sp[i].hdr <= sp[i].end
                   /\ sp[i].end <= Len(data)
                   /\ sp[i].stop = sp[i].end
                   /\ IsStr(fl[i]) <=> ~IsListSpan(sp[i])
                   /\ IsStr(fl[i]) =>
                          /\ Len(fl[i].b) = sp[i].end - sp[i].hdr
                          /\ fl[i].b = SubSeq(data, sp[i].hdr + 1, sp[i].end)
                   /\ HasChildren(sp[i]) => i < n
                   /\ i < n =>
                          sp[i + 1].pos = IF HasChildren(sp[i]) THEN sp[i].hdr
                                          ELSE sp[i].end
            /\ \A k \in 1..n : \A i \in (k + 1)..n :
                   (IsListSpan(sp[k]) /\ sp[i].pos < sp[k].end) =>
                       /\ sp[k].hdr <= sp[i].pos
                       /\ sp[i].end <= sp[k].end

\* c2 01 c0: a list of the byte 01 and, right after it, the empty list.
C24_Witness ==
    /\ Accepted
    /\ data = <<194, 1, 192>>
    /\ ret.obj = Lst(<<Str(<<1>>), Lst(<<>>)>>)
    /\ Len(ret.sp) = 3
    /\ ret.sp[3].pos = ret.sp[2].end

====
